---- MODULE Spec2Model ----
(***************************************************************************)
(* A model of server/blog_agent_server.py: a Flask application with one    *)
(* route, POST /callback, whose view handle_message reads request.json,    *)
(* extracts payload.text, wraps it with write_blog and returns it through  *)
(* jsonify; and the __main__ block that reads PORT and starts the server.  *)
(*                                                                         *)
(* Text is a sequence of one-character strings, so that prefixes, suffixes *)
(* and single characters can be talked about.  JSON values and Python      *)
(* objects are tagged records [t |-> <type>, <content>], the content       *)
(* under a field of its own per type; JSON uses the JSON type names and    *)
(* Python objects the Python type names, and JsonLoads / JsonDumps convert *)
(* between the two.                                                        *)
(***************************************************************************)
EXTENDS Integers, Sequences, FiniteSets, TLC

(***************************************************************************)
(* Bounds of the model.                                                    *)
(***************************************************************************)
\* Longest notes text a client sends.
MaxLen == 3
\* Longest value of the environment variable PORT.
MaxEnvLen == 3
\* Requests the server handles at the same time (threads of the listener).
NumWorkers == 2

\* Characters of the notes: a letter and the HTML metacharacters < > & ".
Chars == {"a", "<", ">", "&", "\""}
\* Characters of PORT: digits, a non-digit, blank, signs, underscore.
EnvChars == {"8", "0", "x", " ", "-", "+", "_"}

Texts(alphabet, n) == UNION {[1..k -> alphabet] : k \in 0..n}

(***************************************************************************)
(* JSON values (what is on the wire) and Python objects (what the code     *)
(* sees).                                                                  *)
(***************************************************************************)
JNull == [t |-> "null"]
JBool(b) == [t |-> "boolean", b |-> b]
JNum(n) == [t |-> "number", n |-> n]
JStr(s) == [t |-> "string", s |-> s]
JArr(a) == [t |-> "array", items |-> a]
JObj(f) == [t |-> "object", map |-> f]
\* A request body that is not JSON text at all.
Malformed == [t |-> "malformed"]

PyNone == [t |-> "NoneType"]
PyBool(b) == [t |-> "bool", b |-> b]
PyInt(n) == [t |-> "int", n |-> n]
PyStr(s) == [t |-> "str", s |-> s]
PyList(a) == [t |-> "list", items |-> a]
PyDict(f) == [t |-> "dict", map |-> f]
\* A local name that has not been assigned yet.
Unbound == [t |-> "unbound"]

\* The empty mapping: {} in Python, {} in JSON.
EmptyMap == <<>>

\* json.loads as request.json applies it: each JSON type becomes its Python type.
RECURSIVE JsonLoads(_)
JsonLoads(j) ==
    CASE j.t = "null" -> PyNone
      [] j.t = "boolean" -> PyBool(j.b)
      [] j.t = "number" -> PyInt(j.n)
      [] j.t = "string" -> PyStr(j.s)
      [] j.t = "array" -> PyList([i \in DOMAIN j.items |-> JsonLoads(j.items[i])])
      [] j.t = "object" -> PyDict([k \in DOMAIN j.map |-> JsonLoads(j.map[k])])

\* json.dumps as jsonify applies it: each Python type becomes its JSON type.
RECURSIVE JsonDumps(_)
JsonDumps(p) ==
    CASE p.t = "NoneType" -> JNull
      [] p.t = "bool" -> JBool(p.b)
      [] p.t = "int" -> JNum(p.n)
      [] p.t = "str" -> JStr(p.s)
      [] p.t = "list" -> JArr([i \in DOMAIN p.items |-> JsonDumps(p.items[i])])
      [] p.t = "dict" -> JObj([k \in DOMAIN p.map |-> JsonDumps(p.map[k])])

(***************************************************************************)
(* Python's text conversions.                                              *)
(***************************************************************************)
DigitChars == <<"0", "1", "2", "3", "4", "5", "6", "7", "8", "9">>

\* The decimal digits of a natural number.
RECURSIVE NatToText(_)
NatToText(n) ==
    IF n < 10 THEN <<DigitChars[n + 1]>>
    ELSE NatToText(n \div 10) \o <<DigitChars[(n % 10) + 1]>>

\* str(n) of an int.
IntToText(n) == IF n < 0 THEN <<"-">> \o NatToText(-n) ELSE NatToText(n)

\* The text of a key of a mapping, one character per element.
KeyText(k) ==
    CASE k = "k" -> <<"k">>
      [] k = "text" -> <<"t", "e", "x", "t">>
      [] k = "payload" -> <<"p", "a", "y", "l", "o", "a", "d">>
      [] k = "other" -> <<"o", "t", "h", "e", "r">>

\* The items of a sequence of texts joined by ", ".
RECURSIVE JoinComma(_)
JoinComma(ts) ==
    IF ts = <<>> THEN <<>>
    ELSE IF Len(ts) = 1 THEN ts[1]
    ELSE ts[1] \o <<",", " ">> \o JoinComma(Tail(ts))

\* The keys of a mapping as a sequence.
RECURSIVE KeySeq(_)
KeySeq(ks) ==
    IF ks = {} THEN <<>>
    ELSE LET k == CHOOSE x \in ks : TRUE IN <<k>> \o KeySeq(ks \ {k})

\* repr(p): a str is quoted (none of Chars needs an escape or forces the
\* other quote), a list and a dict show the repr of their items.
RECURSIVE PyRepr(_)
PyRepr(p) ==
    CASE p.t = "NoneType" -> <<"N", "o", "n", "e">>
      [] p.t = "bool" -> IF p.b THEN <<"T", "r", "u", "e">>
                         ELSE <<"F", "a", "l", "s", "e">>
      [] p.t = "int" -> IntToText(p.n)
      [] p.t = "str" -> <<"'">> \o p.s \o <<"'">>
      [] p.t = "list" ->
            <<"[">> \o JoinComma([i \in DOMAIN p.items |-> PyRepr(p.items[i])]) \o <<"]">>
      [] p.t = "dict" ->
            LET ks == KeySeq(DOMAIN p.map)
            IN <<"{">>
               \o JoinComma([i \in DOMAIN ks |->
                     <<"'">> \o KeyText(ks[i]) \o <<"'", ":", " ">> \o PyRepr(p.map[ks[i]])])
               \o <<"}">>

\* format(p, ""), what an f-string replacement field {p} produces: a str is
\* itself, every other object is its str(), which for these types is its repr.
PyFormat(p) == IF p.t = "str" THEN p.s ELSE PyRepr(p)

(***************************************************************************)
(* write_blog.                                                             *)
(***************************************************************************)
Heading == <<"<", "h", "2", ">", "B", "l", "o", "g", " ", "P", "o", "s", "t",
             "<", "/", "h", "2", ">", "<", "p", ">">>
Closing == <<"<", "/", "p", ">">>

\* write_blog with the notes HTML-escaped, which the program does not do.
RECURSIVE HtmlEscape(_)
HtmlEscape(s) ==
    IF s = <<>> THEN <<>>
    ELSE (CASE Head(s) = "<" -> <<"&", "l", "t", ";">>
            [] Head(s) = ">" -> <<"&", "g", "t", ";">>
            [] Head(s) = "&" -> <<"&", "a", "m", "p", ";">>
            [] Head(s) = "\"" -> <<"&", "q", "u", "o", "t", ";">>
            [] OTHER -> <<Head(s)>>) \o HtmlEscape(Tail(s))
write_blog_escaped(notes) == PyStr(Heading \o HtmlEscape(PyFormat(notes)) \o Closing)

\* def write_blog(notes): return f"<h2>Blog Post</h2><p>{notes}</p>"
write_blog(notes) == PyStr(Heading \o PyFormat(notes) \o Closing)

(***************************************************************************)
(* int(), as  int(os.environ.get("PORT", 5000))  uses it.                  *)
(***************************************************************************)
IsDigit(c) == c \in {DigitChars[i] : i \in DOMAIN DigitChars}
DigitValue(c) == (CHOOSE i \in DOMAIN DigitChars : DigitChars[i] = c) - 1

\* str.strip(): leading and trailing blanks removed.
RECURSIVE LStrip(_)
LStrip(s) == IF s # <<>> /\ Head(s) = " " THEN LStrip(Tail(s)) ELSE s
RECURSIVE RStrip(_)
RStrip(s) ==
    IF s # <<>> /\ s[Len(s)] = " " THEN RStrip(SubSeq(s, 1, Len(s) - 1)) ELSE s
Strip(s) == RStrip(LStrip(s))

\* A decimal literal body: digits, single underscores only between digits.
IsDigitRun(s) ==
    /\ s # <<>>
    /\ \A i \in DOMAIN s : IsDigit(s[i]) \/ s[i] = "_"
    /\ IsDigit(s[1]) /\ IsDigit(s[Len(s)])
    /\ \A i \in 1..(Len(s) - 1) : ~(s[i] = "_" /\ s[i + 1] = "_")

RECURSIVE DigitRunValue(_, _)
DigitRunValue(s, acc) ==
    IF s = <<>> THEN acc
    ELSE IF Head(s) = "_" THEN DigitRunValue(Tail(s), acc)
    ELSE DigitRunValue(Tail(s), 10 * acc + DigitValue(Head(s)))

\* int(p): an int is itself; a str is stripped, may carry one sign, and must
\* then be a decimal literal, else ValueError.
PyIntOf(p) ==
    IF p.t = "int" THEN [ok |-> TRUE, val |-> p.n]
    ELSE LET s == Strip(p.s)
             signed == s # <<>> /\ s[1] \in {"+", "-"}
             body == IF signed THEN Tail(s) ELSE s
         IN IF IsDigitRun(body)
            THEN [ok |-> TRUE,
                  val |-> IF signed /\ s[1] = "-" THEN -DigitRunValue(body, 0)
                          ELSE DigitRunValue(body, 0)]
            ELSE [ok |-> FALSE, val |-> 0]

\* mapping.get(key, default) of a dict or of os.environ.
Get(mapping, key, default) ==
    IF key \in DOMAIN mapping THEN mapping[key] ELSE default

(***************************************************************************)
(* The inputs: environments and requests.                                  *)
(***************************************************************************)
\* os.environ restricted to PORT: unset, or set to a text.
Environments ==
    {EmptyMap} \cup {[PORT |-> PyStr(s)] : s \in Texts(EnvChars, MaxEnvLen)}

\* Values a client may put under "text".
TextValues ==
    {JStr(s) : s \in Texts(Chars, MaxLen)}
    \cup {JNull, JBool(TRUE), JBool(FALSE), JNum(0), JNum(42), JNum(-7),
          JArr(<<>>), JArr(<<JNum(1), JStr(<<"a">>)>>),
          JObj(EmptyMap), JObj([k |-> JNum(1)])}

\* Values a client may put under "payload".
PayloadValues ==
    {JObj(EmptyMap), JObj([other |-> JNum(1)])}
    \cup {JObj([text |-> tv]) : tv \in TextValues}
    \cup {JObj([text |-> JStr(<<"a">>), other |-> JNum(1)])}
    \cup {JNull, JBool(TRUE), JNum(5), JStr(<<"a">>), JArr(<<>>)}

\* Request bodies: not JSON at all, or any JSON value.
Bodies ==
    {Malformed}
    \cup {JNull, JBool(FALSE), JNum(5), JStr(<<"a">>), JArr(<<>>),
          JArr(<<JObj([payload |-> JObj([text |-> JStr(<<"a">>)])])>>)}
    \cup {JObj(EmptyMap), JObj([other |-> JNum(1)])}
    \cup {JObj([payload |-> pv]) : pv \in PayloadValues}
    \cup {JObj([payload |-> JObj([text |-> JStr(<<"a">>)]), other |-> JNum(1)])}

Methods == {"POST", "GET", "PUT", "DELETE", "HEAD", "OPTIONS"}
Paths == {"/callback", "/callback/", "/"}

Requests == [method : Methods, path : Paths, body : Bodies]

\* The few requests used when several are in flight at once.
ConcBodies ==
    {Malformed, JNull, JObj(EmptyMap),
     JObj([payload |-> JNull]),
     JObj([payload |-> JObj([text |-> JNull])]),
     JObj([payload |-> JObj([text |-> JStr(<<"a">>)])]),
     JObj([payload |-> JObj([text |-> JStr(<<"<", "&">>)])])}
ConcRequests ==
    [method : {"POST"}, path : {"/callback"}, body : ConcBodies]
    \cup [method : {"GET"}, path : {"/callback"}, body : {JObj(EmptyMap)}]

Workers == 1..NumWorkers

(***************************************************************************)
(* The pieces of the program.                                              *)
(***************************************************************************)
\* os.environ.get("PORT", 5000): the default of the port.
DefaultPort == 5000
\* app.run(host="0.0.0.0", ...): all interfaces.
AllInterfaces == "0.0.0.0"

\* Startup that falls back to the default port when PORT is not an integer.
StartupPortFallback(env) ==
    LET r == PyIntOf(Get(env, "PORT", PyInt(DefaultPort)))
    IN IF r.ok THEN r ELSE [ok |-> TRUE, val |-> DefaultPort]

\* port = int(os.environ.get("PORT", 5000)): the int, or ValueError (ok = FALSE).
StartupPort(env) == PyIntOf(Get(env, "PORT", PyInt(DefaultPort)))

\* @app.route('/callback', methods=['POST'])
RoutePath == "/callback"
\* A route that also lists GET.
RouteMethodsWithGet == {"POST", "GET"}
RouteMethods == {"POST"}

\* The framework's URL matching for the one rule: the view to call, or the
\* answer it gives itself: 404 for another path, an automatic answer to
\* OPTIONS, 405 for a method the rule does not list.
MatchRoute(method, path) ==
    IF path # RoutePath THEN "NotFound"
    ELSE IF method \in RouteMethods THEN "handle_message"
    ELSE IF method = "OPTIONS" THEN "automatic_options"
    ELSE "MethodNotAllowed"

\* request.get_json(silent=True): a body that is not JSON reads as None.
RequestJsonSilent(body) ==
    IF body = Malformed THEN [ok |-> TRUE, val |-> PyNone]
    ELSE [ok |-> TRUE, val |-> JsonLoads(body)]

\* data = request.json: the parsed body, or BadRequest (ok = FALSE) when the
\* body is not JSON.
RequestJson(body) ==
    IF body = Malformed THEN [ok |-> FALSE, val |-> Unbound]
    ELSE [ok |-> TRUE, val |-> JsonLoads(body)]

\* The extraction without the default of text: .get('text') gives None.
GetNotesNoDefault(d) ==
    IF d.t # "dict" THEN [ok |-> FALSE, val |-> Unbound]
    ELSE LET payload == Get(d.map, "payload", PyDict(EmptyMap))
         IN IF payload.t # "dict" THEN [ok |-> FALSE, val |-> Unbound]
            ELSE [ok |-> TRUE, val |-> Get(payload.map, "text", PyNone)]

\* notes = data.get('payload', {}).get('text', ''): the notes, or
\* AttributeError (ok = FALSE) when data or the payload has no get, which
\* only a dict has.
GetNotes(d) ==
    IF d.t # "dict" THEN [ok |-> FALSE, val |-> Unbound]
    ELSE LET payload == Get(d.map, "payload", PyDict(EmptyMap))
         IN IF payload.t # "dict" THEN [ok |-> FALSE, val |-> Unbound]
            ELSE [ok |-> TRUE, val |-> Get(payload.map, "text", PyStr(<<>>))]

\* jsonify that adds a second field to the object.
jsonify_extra(mapping) ==
    [status |-> 200,
     body |-> JsonDumps(PyDict([k \in DOMAIN mapping \cup {"other"} |->
                 IF k \in DOMAIN mapping THEN mapping[k] ELSE PyBool(TRUE)]))]

\* The responses.  jsonify(mapping): status 200 and the mapping as a JSON object.
jsonify(mapping) == [status |-> 200, body |-> JsonDumps(PyDict(mapping))]
\* The framework's own answers: an error page, or the empty answer to OPTIONS.
ErrorPage(code) == [status |-> code, body |-> [t |-> "error_page"]]
OptionsResponse == [status |-> 200, body |-> [t |-> "empty"]]
NoResponse == [status |-> 0, body |-> Unbound]
NoRequest == [method |-> "", path |-> "", body |-> Unbound]

(***************************************************************************)
(* The state.                                                              *)
(***************************************************************************)
VARIABLES
    environ,    \* os.environ, restricted to PORT
    server,     \* "starting", "running" or "failed"
    listeners,  \* what app.run was asked to listen on: {[host, port]} or {}
    pc,         \* per worker: where its request is
    request,    \* per worker: the request it serves
    data,       \* per worker: handle_message's local data
    notes,      \* per worker: handle_message's local notes
    blog_post,  \* per worker: handle_message's local blog_post
    response,   \* per worker: the response of its request
    called      \* per worker: the functions of the program called for its request

vars == <<environ, server, listeners, pc, request, data, notes, blog_post,
          response, called>>
locals == <<pc, request, data, notes, blog_post, response, called>>

IdleWorkers ==
    /\ pc = [w \in Workers |-> "idle"]
    /\ request = [w \in Workers |-> NoRequest]
    /\ data = [w \in Workers |-> Unbound]
    /\ notes = [w \in Workers |-> Unbound]
    /\ blog_post = [w \in Workers |-> Unbound]
    /\ response = [w \in Workers |-> NoResponse]
    /\ called = [w \in Workers |-> {}]

\* The process starts with PORT unset.
Init ==
    /\ environ = EmptyMap
    /\ server = "starting"
    /\ listeners = {}
    /\ IdleWorkers

\* The process starts in any environment.
InitMain ==
    /\ environ \in Environments
    /\ server = "starting"
    /\ listeners = {}
    /\ IdleWorkers

(***************************************************************************)
(* The steps.                                                              *)
(***************************************************************************)
\* if __name__ == '__main__': the port is read and the server started; a
\* ValueError of int() ends the process before app.run.
Main ==
    /\ server = "starting"
    /\ LET port == StartupPort(environ)
       IN IF port.ok
          THEN /\ server' = "running"
               /\ listeners' = {[host |-> AllInterfaces, port |-> port.val]}
          ELSE /\ server' = "failed"
               /\ listeners' = {}
    /\ UNCHANGED <<environ, locals>>

\* A worker of the running server takes a request, one of reqs.
Accept(w, reqs) ==
    /\ server = "running"
    /\ pc[w] = "idle"
    /\ \E r \in reqs : request' = [request EXCEPT ![w] = r]
    /\ pc' = [pc EXCEPT ![w] = "routing"]
    /\ UNCHANGED <<environ, server, listeners, data, notes, blog_post, response, called>>

\* The framework matches the request against the route and either enters
\* handle_message or answers itself.
Dispatch(w) ==
    /\ pc[w] = "routing"
    /\ LET m == MatchRoute(request[w].method, request[w].path)
       IN IF m = "handle_message"
          THEN /\ pc' = [pc EXCEPT ![w] = "line15"]
               /\ called' = [called EXCEPT ![w] = @ \cup {"handle_message"}]
               /\ UNCHANGED response
          ELSE /\ pc' = [pc EXCEPT ![w] = "done"]
               /\ response' = [response EXCEPT ![w] =
                     CASE m = "NotFound" -> ErrorPage(404)
                       [] m = "MethodNotAllowed" -> ErrorPage(405)
                       [] m = "automatic_options" -> OptionsResponse]
               /\ UNCHANGED called
    /\ UNCHANGED <<environ, server, listeners, request, data, notes, blog_post>>

\* data = request.json; BadRequest becomes the framework's 400.
ReadJson(w) ==
    /\ pc[w] = "line15"
    /\ LET j == RequestJson(request[w].body)
       IN IF j.ok
          THEN /\ data' = [data EXCEPT ![w] = j.val]
               /\ pc' = [pc EXCEPT ![w] = "line16"]
               /\ UNCHANGED response
          ELSE /\ response' = [response EXCEPT ![w] = ErrorPage(400)]
               /\ pc' = [pc EXCEPT ![w] = "done"]
               /\ UNCHANGED data
    /\ UNCHANGED <<environ, server, listeners, request, notes, blog_post, called>>

\* The extraction with notes kept in one module-level name all workers share.
ExtractNotesGlobal(w) ==
    /\ pc[w] = "line16"
    /\ LET n == GetNotes(data[w])
       IN IF n.ok
          THEN /\ notes' = [x \in Workers |-> n.val]
               /\ pc' = [pc EXCEPT ![w] = "line17"]
               /\ UNCHANGED response
          ELSE /\ response' = [response EXCEPT ![w] = ErrorPage(500)]
               /\ pc' = [pc EXCEPT ![w] = "done"]
               /\ UNCHANGED notes
    /\ UNCHANGED <<environ, server, listeners, request, data, blog_post, called>>

\* notes = data.get('payload', {}).get('text', ''); the uncaught
\* AttributeError becomes the framework's 500.
ExtractNotes(w) ==
    /\ pc[w] = "line16"
    /\ LET n == GetNotes(data[w])
       IN IF n.ok
          THEN /\ notes' = [notes EXCEPT ![w] = n.val]
               /\ pc' = [pc EXCEPT ![w] = "line17"]
               /\ UNCHANGED response
          ELSE /\ response' = [response EXCEPT ![w] = ErrorPage(500)]
               /\ pc' = [pc EXCEPT ![w] = "done"]
               /\ UNCHANGED notes
    /\ UNCHANGED <<environ, server, listeners, request, data, blog_post, called>>

\* The build with blog_post kept in one module-level name all workers share.
WriteBlogShared(w) ==
    /\ pc[w] = "line17"
    /\ blog_post' = [x \in Workers |-> write_blog(notes[w])]
    /\ called' = [called EXCEPT ![w] = @ \cup {"write_blog"}]
    /\ pc' = [pc EXCEPT ![w] = "line18"]
    /\ UNCHANGED <<environ, server, listeners, request, data, notes, response>>

\* blog_post = write_blog(notes)
WriteBlog(w) ==
    /\ pc[w] = "line17"
    /\ blog_post' = [blog_post EXCEPT ![w] = write_blog(notes[w])]
    /\ called' = [called EXCEPT ![w] = @ \cup {"write_blog"}]
    /\ pc' = [pc EXCEPT ![w] = "line18"]
    /\ UNCHANGED <<environ, server, listeners, request, data, notes, response>>

\* return jsonify({'blog_post': blog_post})
Return(w) ==
    /\ pc[w] = "line18"
    /\ response' = [response EXCEPT ![w] = jsonify([blog_post |-> blog_post[w]])]
    /\ pc' = [pc EXCEPT ![w] = "done"]
    /\ UNCHANGED <<environ, server, listeners, request, data, notes, blog_post, called>>

\* The response is sent and the request's context and locals are gone.
Close(w) ==
    /\ pc[w] = "done"
    /\ pc' = [pc EXCEPT ![w] = "idle"]
    /\ request' = [request EXCEPT ![w] = NoRequest]
    /\ data' = [data EXCEPT ![w] = Unbound]
    /\ notes' = [notes EXCEPT ![w] = Unbound]
    /\ blog_post' = [blog_post EXCEPT ![w] = Unbound]
    /\ response' = [response EXCEPT ![w] = NoResponse]
    /\ called' = [called EXCEPT ![w] = {}]
    /\ UNCHANGED <<environ, server, listeners>>

\* One request at a time, any request.
Next ==
    \/ Main
    \/ Accept(1, Requests)
    \/ Dispatch(1)
    \/ ReadJson(1)
    \/ ExtractNotes(1)
    \/ WriteBlog(1)
    \/ Return(1)
    \/ Close(1)

Spec == Init /\ [][Next]_vars

\* Several requests in flight, their steps interleaved in any order.
NextConc ==
    \/ Main
    \/ \E w \in Workers :
          \/ Accept(w, ConcRequests)
          \/ Dispatch(w)
          \/ ReadJson(w)
          \/ ExtractNotes(w)
          \/ WriteBlog(w)
          \/ Return(w)
          \/ Close(w)

SpecConc == Init /\ [][NextConc]_vars

\* Startup alone, in every environment.
SpecMain == InitMain /\ [][Main]_vars

(***************************************************************************)
(* What the properties talk about.                                         *)
(***************************************************************************)
\* The request of worker w has been answered.
Answered(w) == pc[w] = "done"
\* The request of worker w was a POST to /callback.
PostCallback(w) == request[w].method = "POST" /\ request[w].path = "/callback"
\* handle_message ran to its return statement for the request of worker w.
HandlerReturned(w) == pc[w] = "done" /\ blog_post[w] # Unbound
\* The response to worker w's request is a JSON object with a blog_post field.
HasBlogPost(w) ==
    /\ response[w].body.t = "object"
    /\ "blog_post" \in DOMAIN response[w].body.map
\* The response with the fragment that wraps text s, and nothing else.
BlogResponse(s) ==
    [status |-> 200, body |-> JObj([blog_post |-> JStr(Heading \o s \o Closing)])]
\* The response is an error page of the framework.
IsErrorResponse(r) == r.body.t = "error_page" /\ r.status \in 400..599

StartsWith(s, prefix) ==
    Len(s) >= Len(prefix) /\ SubSeq(s, 1, Len(prefix)) = prefix
EndsWith(s, suffix) ==
    Len(s) >= Len(suffix) /\ SubSeq(s, Len(s) - Len(suffix) + 1, Len(s)) = suffix

\* The body is exactly {"payload": {"text": <a string>}}.
IsTextBody(b) ==
    /\ b.t = "object"
    /\ DOMAIN b.map = {"payload"}
    /\ b.map.payload.t = "object"
    /\ DOMAIN b.map.payload.map = {"text"}
    /\ b.map.payload.map.text.t = "string"
\* The body is an object without payload, or with a payload object without text.
LacksText(b) ==
    /\ b.t = "object"
    /\ \/ "payload" \notin DOMAIN b.map
       \/ /\ b.map.payload.t = "object"
          /\ "text" \notin DOMAIN b.map.payload.map
\* The body is JSON of the wrong shape: not an object, or its payload is not one.
WrongShape(b) ==
    /\ b # Malformed
    /\ \/ b.t # "object"
       \/ /\ "payload" \in DOMAIN b.map
          /\ b.map.payload.t # "object"
\* The body has a payload object whose text is present and is not a string.
NonStringText(b) ==
    /\ b.t = "object"
    /\ "payload" \in DOMAIN b.map
    /\ b.map.payload.t = "object"
    /\ "text" \in DOMAIN b.map.payload.map
    /\ b.map.payload.map.text.t # "string"

(***************************************************************************)
(* The properties.                                                         *)
(***************************************************************************)
\* C1: a POST to /callback with body {"payload": {"text": s}} is answered 200
\* with blog_post exactly "<h2>Blog Post</h2><p>" + s + "</p>", for every
\* string s, the empty one and those with HTML metacharacters included.
C1_VerbatimConcatenation ==
    \A w \in Workers :
        (Answered(w) /\ PostCallback(w) /\ IsTextBody(request[w].body))
        => response[w] = BlogResponse(request[w].body.map.payload.map.text.s)

\* A text of metacharacters has come back unescaped.
C1_Witness ==
    \E w \in Workers :
        /\ Answered(w) /\ PostCallback(w)
        /\ request[w].body = JObj([payload |-> JObj([text |-> JStr(<<"<", "\"", "&">>)])])
        /\ response[w] = BlogResponse(<<"<", "\"", "&">>)

\* C2: a body without payload, or whose payload object has no text, is
\* answered 200 with the empty paragraph, "<h2>Blog Post</h2><p></p>".
C2_MissingDefaultsToEmpty ==
    \A w \in Workers :
        (Answered(w) /\ PostCallback(w) /\ LacksText(request[w].body))
        => response[w] = BlogResponse(<<>>)

\* A payload without text (and with another key) has been answered.
C2_Witness ==
    \E w \in Workers :
        /\ Answered(w) /\ PostCallback(w)
        /\ request[w].body = JObj([payload |-> JObj([other |-> JNum(1)])])
        /\ response[w] = BlogResponse(<<>>)

\* C3: a JSON body of the wrong shape (not an object, or with a payload that
\* is not an object) is answered 200 with the empty paragraph and no error.
C3_WrongShapeDefaultsToEmpty ==
    \A w \in Workers :
        (Answered(w) /\ PostCallback(w) /\ WrongShape(request[w].body))
        => response[w] = BlogResponse(<<>>)

\* C4: a text that is present and not a string is either defaulted to the
\* empty paragraph or ends in the framework's error response; no 200 carries
\* a rendering of the value.
C4_NonStringTextDefaultsOrFails ==
    \A w \in Workers :
        (Answered(w) /\ PostCallback(w) /\ NonStringText(request[w].body))
        => \/ response[w] = BlogResponse(<<>>)
           \/ IsErrorResponse(response[w])

\* C5: every response handle_message returns has status 200 and a body that
\* is a JSON object with the one field blog_post, a string that starts with
\* "<h2>Blog Post</h2><p>" and ends with "</p>".
C5_ResponseShape ==
    \A w \in Workers :
        HandlerReturned(w)
        => /\ response[w].status = 200
           /\ response[w].body.t = "object"
           /\ DOMAIN response[w].body.map = {"blog_post"}
           /\ response[w].body.map.blog_post.t = "string"
           /\ StartsWith(response[w].body.map.blog_post.s, Heading)
           /\ EndsWith(response[w].body.map.blog_post.s, Closing)
           /\ Len(response[w].body.map.blog_post.s) >= Len(Heading) + Len(Closing)

\* handle_message has returned for notes that are not a string.
C5_Witness ==
    \E w \in Workers : HandlerReturned(w) /\ notes[w] = PyList(<<>>)

\* C8: a request whose body is not JSON never gets a blog_post: notes are
\* never extracted, write_blog is never called, and once handle_message has
\* been entered the request ends in the framework's 400.
C8_MalformedBodyRejected ==
    \A w \in Workers :
        request[w].body = Malformed
        => /\ notes[w] = Unbound
           /\ blog_post[w] = Unbound
           /\ "write_blog" \notin called[w]
           /\ Answered(w) =>
                 /\ ~HasBlogPost(w)
                 /\ "handle_message" \in called[w] =>
                       /\ response[w].status \in 400..499
                       /\ IsErrorResponse(response[w])

\* A POST to /callback with a body that is not JSON has been answered 400.
C8_Witness ==
    \E w \in Workers :
        /\ Answered(w) /\ PostCallback(w)
        /\ request[w].body = Malformed
        /\ response[w] = ErrorPage(400)

\* C10: only a POST to /callback reaches handle_message or write_blog, and
\* only such a request is answered with a blog_post.
C10_OnlyPostCallback ==
    \A w \in Workers :
        (called[w] # {} \/ (Answered(w) /\ HasBlogPost(w)))
        => PostCallback(w)

\* A GET to /callback with a well-formed body has been refused.
C10_Witness ==
    \E w \in Workers :
        /\ Answered(w)
        /\ request[w].method = "GET" /\ request[w].path = "/callback"
        /\ IsTextBody(request[w].body)
        /\ called[w] = {}
        /\ response[w] = ErrorPage(405)

\* C6: the outcome of a request is a function of the request alone: two
\* requests that are equal, answered at any two points of any run of the
\* server, have equal responses (status and body).
C6_OutcomeDependsOnRequestOnly ==
    \A w1, w2 \in Workers :
        (Answered(w1) /\ Answered(w2) /\ request[w1] = request[w2])
        => response[w1] = response[w2]

\* Two equal requests with notes have both been answered with a blog_post.
C6_Witness ==
    \E w1, w2 \in Workers :
        /\ w1 # w2
        /\ HandlerReturned(w1) /\ HandlerReturned(w2)
        /\ IsTextBody(request[w1].body)
        /\ request[w1] = request[w2]
        /\ response[w1] = response[w2]

\* What a request yields when it is handled alone, start to end.
Handle(r) ==
    LET m == MatchRoute(r.method, r.path)
        j == RequestJson(r.body)
        n == GetNotes(j.val)
    IN CASE m = "NotFound" -> ErrorPage(404)
         [] m = "MethodNotAllowed" -> ErrorPage(405)
         [] m = "automatic_options" -> OptionsResponse
         [] OTHER ->
              IF ~j.ok THEN ErrorPage(400)
              ELSE IF ~n.ok THEN ErrorPage(500)
              ELSE jsonify([blog_post |-> write_blog(n.val)])

\* Everything worker w holds of its request.
Frame(w) ==
    <<pc[w], request[w], data[w], notes[w], blog_post[w], response[w], called[w]>>

\* Some step of worker w's request can be taken.
CanStep(w) ==
    ENABLED (\/ Accept(w, ConcRequests)
             \/ Dispatch(w) \/ ReadJson(w) \/ ExtractNotes(w)
             \/ WriteBlog(w) \/ Return(w) \/ Close(w))

\* Each answered request has the response it would have had alone.
OwnResponse ==
    \A w \in Workers : Answered(w) => response[w] = Handle(request[w])
\* Each request's locals are those of its own request.
OwnLocals ==
    \A w \in Workers :
        /\ notes[w] # Unbound
           => notes[w] = GetNotes(RequestJson(request[w].body).val).val
        /\ blog_post[w] # Unbound
           => notes[w] # Unbound /\ blog_post[w] = write_blog(notes[w])
\* No worker waits for another: its next step can always be taken.
NeverBlocked ==
    server = "running" => \A w \in Workers : CanStep(w)
\* A step changes what at most one worker holds.
OneFramePerStep ==
    \A w1, w2 \in Workers :
        (Frame(w1)' # Frame(w1) /\ Frame(w2)' # Frame(w2)) => w1 = w2

\* C7: with several requests in flight, under every interleaving of their
\* steps, each request gets the response built from its own notes, no
\* request is blocked by another, and a step of one invocation touches only
\* that invocation's data.
C7_Isolation ==
    /\ [](OwnResponse /\ OwnLocals /\ NeverBlocked)
    /\ [][OneFramePerStep]_vars

\* One request has been answered from its notes while another, with other
\* notes, is between building its HTML and sending it.
C7_Witness ==
    \E w1, w2 \in Workers :
        /\ w1 # w2
        /\ HandlerReturned(w1)
        /\ pc[w2] = "line18"
        /\ notes[w1] # notes[w2]
        /\ notes[w1].t = "str" /\ notes[w2].t = "str"

(***************************************************************************)
(* What an integer string is, built up rather than recognised: digits,     *)
(* with single underscores between them, after an optional sign, with      *)
(* blanks around; each with its value.                                     *)
(***************************************************************************)
EnvDigits == {c \in EnvChars : IsDigit(c)}

\* The digit runs of at most n characters, each <<text, value>>.
RECURSIVE Numerals(_)
Numerals(n) ==
    IF n = 0 THEN {}
    ELSE LET shorter == Numerals(n - 1)
             grown ==
                {<<p[1] \o <<c>>, 10 * p[2] + DigitValue(c)>> :
                    p \in shorter, c \in EnvDigits}
                \cup {<<p[1] \o <<"_", c>>, 10 * p[2] + DigitValue(c)>> :
                         p \in shorter, c \in EnvDigits}
         IN {<<<<c>>, DigitValue(c)>> : c \in EnvDigits}
            \cup {p \in grown : Len(p[1]) <= n}

Blanks(k) == [i \in 1..k |-> " "]

\* The integer strings of at most n characters, each <<text, value>>.
IntegerTexts(n) ==
    LET signed ==
           Numerals(n)
           \cup {<<<<"+">> \o p[1], p[2]>> : p \in Numerals(n)}
           \cup {<<<<"-">> \o p[1], -p[2]>> : p \in Numerals(n)}
        padded ==
           {<<Blanks(a) \o p[1] \o Blanks(b), p[2]>> :
               p \in signed, a \in 0..n, b \in 0..n}
    IN {p \in padded : Len(p[1]) <= n}

ListensOn(port) ==
    server = "running" /\ listeners = {[host |-> "0.0.0.0", port |-> port]}

====
